---- MODULE Spec2Model ----
(***************************************************************************)
(* Model of the three Blender automation scripts under scripts/:           *)
(*   blender_export_existing_scene.py  (script "scene")                    *)
(*   blender_export_video.py           (script "video")                    *)
(*   blender_jalen_edusei_glass.py     (script "logo")                     *)
(* One run of one script is one behaviour.  The host application's state   *)
(* (render settings, objects, animation data, file system) is the state;   *)
(* every statement group of a script is one action, ordered by pc.         *)
(***************************************************************************)
EXTENDS Integers, Sequences, FiniteSets, TLC

VARIABLES
    script,        \* which script the host was started with
    argv,          \* sys.argv, a sequence of tokens (each a sequence of characters)
    appVersion,    \* bpy.app.version
    files,         \* regular files that exist (os.path.isfile)
    svgCurves,     \* number of CURVE objects the SVG importer selects
    dirs,          \* directories that exist under the project root
    prefs,         \* host defaults: world after factory reset, new keyframe interpolation
    render,        \* scene.render
    cycles,        \* scene.cycles
    eevee,         \* scene.eevee
    view_layers,   \* scene.view_layers
    frame_end,     \* scene.frame_end
    objects,       \* scene.objects, in creation order
    world,         \* scene.world
    fcurves,       \* keyframe points of the empty's action: one set per array index
    locals,        \* local variables of main()
    pc,            \* position in the script
    status,        \* "running", "returned" (main returned normally), "raised" (exception left main)
    exc,           \* the exception being handled or propagated
    trace,         \* the host-API steps performed so far, in order
    calls,         \* every render / export operator invocation, with the state it saw
    out            \* what was printed, in order

vars == <<script, argv, appVersion, files, svgCurves, dirs, prefs, render, cycles, eevee,
          view_layers, frame_end, objects, world, fcurves, locals, pc, status, exc,
          trace, calls, out>>

\* Inputs of the process: never written by any script.
procVars == <<script, argv, appVersion, files, svgCurves, prefs>>

\* The fields of the scene a script can write.
sceneVars == <<render, cycles, eevee, view_layers, frame_end, objects, world, fcurves>>

----------------------------------------------------------------------------
(* Bounds *)

MaxViewLayers == 2
MaxObjects == 2
MaxCurves == 2

----------------------------------------------------------------------------
(* Exceptions *)

NoExc == [type |-> "None", msg |-> <<>>]

\* Messages are sequences of words; str(e) is the message.
Messages ==
    { <<"Failed", "to", "create", "OpenImageDenoiser", "device">>,
      <<"OpenImageDenoiser">>,
      <<"Out", "of", "memory">> }

Denoiser == "OpenImageDenoiser"

\* Python's  sub in str(e)  on the word sequence.
Contains(msg, word) == \E i \in 1..Len(msg) : msg[i] = word

\* isinstance(e, cls) along Python's hierarchy
\* BaseException > Exception > {RuntimeError, OSError > FileNotFoundError}, BaseException > KeyboardInterrupt.
IsInstance(e, cls) ==
    CASE cls = "RuntimeError" -> e.type = "RuntimeError"
      [] cls = "Exception"    -> e.type \in {"RuntimeError", "Exception", "FileNotFoundError"}
      [] OTHER                -> e.type = cls

\* What an operator invocation can throw.
OperatorErrors == [type : {"RuntimeError", "Exception", "KeyboardInterrupt"}, msg : Messages]

OperatorOutcomes == {NoExc} \cup OperatorErrors

----------------------------------------------------------------------------
(* Paths and the file system *)

PublicDir == "public"
ModelsDir == "public/models"
VideosDir == "public/videos"

DirStates == { {}, {PublicDir}, {PublicDir, ModelsDir}, {PublicDir, VideosDir},
               {PublicDir, ModelsDir, VideosDir} }

\* Faulty variant: the directory is not created.
Makedirs_Skipped(ds, d) == ds

\* os.makedirs(d, exist_ok=True): creates d and every missing parent, no error if present.
Makedirs(ds, d) == ds \cup {PublicDir, d}

----------------------------------------------------------------------------
(* Operator invocations *)

\* The record kept of one render / export invocation: the settings it ran with.
Invocation(op, dir, outcome) ==
    [ op |-> op,
      engine |-> render.engine,
      film_transparent |-> render.film_transparent,
      file_format |-> render.file_format,
      color_mode |-> render.color_mode,
      cycles |-> cycles,
      view_layers |-> view_layers,
      dirExists |-> dir \in dirs,
      outcome |-> outcome ]

----------------------------------------------------------------------------
(* Scene state *)

AlphaModes == { <<"PNG", "RGBA">>, <<"PNG", "RGB">>, <<"JPEG", "RGB">> }

RenderStates ==
    { [ film_transparent |-> ft, file_format |-> fm[1], color_mode |-> fm[2],
        engine |-> en, filepath |-> "/tmp/", resolution_x |-> 1280, resolution_y |-> 720 ] :
      ft \in BOOLEAN, fm \in AlphaModes, en \in {"CYCLES", "BLENDER_EEVEE", "BLENDER_WORKBENCH"} }

DefaultRender == CHOOSE r \in RenderStates :
    ~r.film_transparent /\ r.file_format = "PNG" /\ r.color_mode = "RGBA" /\ r.engine = "BLENDER_EEVEE"

\* scene.cycles is falsy when the Cycles add-on is not loaded.
CyclesStates ==
    { [present |-> FALSE, samples |-> 0, use_denoising |-> FALSE] } \cup
    { [present |-> TRUE, samples |-> 1024, use_denoising |-> d] : d \in BOOLEAN }

DefaultCycles == [present |-> TRUE, samples |-> 1024, use_denoising |-> TRUE]

EeveeStates ==
    { [present |-> FALSE, taa_render_samples |-> 0],
      [present |-> TRUE, taa_render_samples |-> 16] }

DefaultEevee == [present |-> TRUE, taa_render_samples |-> 16]

\* A view layer: hasattr(view_layer, 'cycles'), view_layer.cycles.use_denoising,
\* hasattr(view_layer, 'use_denoising'), view_layer.use_denoising.
LayerStates ==
    { l \in [ hasCycles : BOOLEAN, cyclesDenoising : BOOLEAN,
              hasUseDenoising : BOOLEAN, useDenoising : BOOLEAN ] :
        /\ (~l.hasCycles => ~l.cyclesDenoising)
        /\ (~l.hasUseDenoising => ~l.useDenoising) }

ViewLayerStates == UNION { [1..n -> LayerStates] : n \in 1..MaxViewLayers }

DefaultLayers == << [hasCycles |-> TRUE, cyclesDenoising |-> TRUE,
                     hasUseDenoising |-> FALSE, useDenoising |-> FALSE] >>

\* An object of the scene.
Object(name, type, kind) ==
    [ name |-> name, type |-> type, kind |-> kind, parent |-> "", location |-> <<0, 0, 0>>,
      rotation_euler |-> <<0, 0, 0>>, materials |-> <<>>, uv |-> "", select |-> FALSE, bevel_depth |-> 0 ]

SceneObjects ==
    { Object("Cube", "MESH", ""), Object("Camera", "CAMERA", "PERSP"), Object("Light", "LIGHT", "POINT") }

ObjectStates == UNION { [1..n -> SceneObjects] : n \in 0..MaxObjects }

NoWorld == [present |-> FALSE, use_nodes |-> FALSE, nodes |-> {}, links |-> {}, color |-> <<>>, strength |-> 0]

DefaultWorld == [present |-> TRUE, use_nodes |-> FALSE, nodes |-> {}, links |-> {}, color |-> <<>>, strength |-> 0]

NoCurves == [i \in 0..2 |-> {}]

Interpolations == {"BEZIER", "LINEAR", "CONSTANT"}

DefaultPrefs == [world |-> DefaultWorld, interpolation |-> "BEZIER"]

NoLocals == [use_svg |-> FALSE, args |-> <<>>, logo |-> 0, empty |-> 0, cameras |-> <<>>, lights |-> <<>>]

\* sys.argv of a run without script arguments.
BaseArgv == << <<"b">>, <<"-", "b">>, <<"-", "P">>, <<"s", ".", "p", "y">> >>

----------------------------------------------------------------------------
(* blender_export_video.py *)

InitVideo ==
    /\ script = "video"
    /\ argv = BaseArgv
    /\ appVersion = <<4, 2, 0>>
    /\ files = {}
    /\ svgCurves = 0
    /\ dirs \in DirStates
    /\ prefs = DefaultPrefs
    /\ render \in RenderStates
    /\ cycles \in CyclesStates
    /\ eevee \in EeveeStates
    /\ view_layers \in ViewLayerStates
    /\ frame_end = 250
    /\ objects = <<>>
    /\ world = DefaultWorld
    /\ fcurves = NoCurves
    /\ locals = NoLocals
    /\ pc = "v_settings"
    /\ status = "running"
    /\ exc = NoExc
    /\ trace = <<>>
    /\ calls = <<>>
    /\ out = <<>>

\* Faulty variant: the colour mode is left as the scene had it.
SetAlphaSettings_NoColorMode ==
    /\ pc = "v_settings"
    /\ render' = [render EXCEPT !.film_transparent = TRUE, !.file_format = "PNG"]
    /\ out' = Append(out, "scene_info")
    /\ pc' = "v_engine"
    /\ UNCHANGED <<procVars, dirs, cycles, eevee, view_layers, frame_end, objects, world,
                   fcurves, locals, status, exc, trace, calls>>

\* Lines 27-37: print the scene info, then the settings for a transparent background.
SetAlphaSettings ==
    /\ pc = "v_settings"
    /\ render' = [render EXCEPT !.film_transparent = TRUE,
                                !.file_format = "PNG",
                                !.color_mode = "RGBA"]
    /\ out' = Append(out, "scene_info")
    /\ pc' = "v_engine"
    /\ UNCHANGED <<procVars, dirs, cycles, eevee, view_layers, frame_end, objects, world,
                   fcurves, locals, status, exc, trace, calls>>

\* Line 41.
SetEngineCycles ==
    /\ pc = "v_engine"
    /\ render' = [render EXCEPT !.engine = "CYCLES"]
    /\ pc' = "v_cycles"
    /\ UNCHANGED <<procVars, dirs, cycles, eevee, view_layers, frame_end, objects, world,
                   fcurves, locals, status, exc, trace, calls, out>>

\* Faulty variant: only the layer's Cycles settings are touched.
DisableLayerDenoising_CyclesOnly(l) ==
    [l EXCEPT !.cyclesDenoising = IF l.hasCycles THEN FALSE ELSE @]

\* Lines 50-54, for one view layer.
DisableLayerDenoising(l) ==
    [l EXCEPT !.cyclesDenoising = IF l.hasCycles THEN FALSE ELSE @,
              !.useDenoising = IF l.hasUseDenoising THEN FALSE ELSE @]

\* Lines 44-54.
ConfigureCycles ==
    /\ pc = "v_cycles"
    /\ IF cycles.present
         THEN /\ cycles' = [cycles EXCEPT !.samples = 64, !.use_denoising = FALSE]
              /\ view_layers' = [i \in DOMAIN view_layers |-> DisableLayerDenoising(view_layers[i])]
         ELSE UNCHANGED <<cycles, view_layers>>
    /\ pc' = "v_output"
    /\ UNCHANGED <<procVars, dirs, render, eevee, frame_end, objects, world,
                   fcurves, locals, status, exc, trace, calls, out>>

\* Lines 60-73: ensure the output directory, set the output path, announce the render.
SetOutputPath ==
    /\ pc = "v_output"
    /\ dirs' = Makedirs(dirs, VideosDir)
    /\ render' = [render EXCEPT !.filepath = "public/videos/jalenedusei_animation_####.png"]
    /\ trace' = Append(trace, "makedirs")
    /\ out' = Append(out, "render_start")
    /\ pc' = "v_render1"
    /\ UNCHANGED <<procVars, cycles, eevee, view_layers, frame_end, objects, world,
                   fcurves, locals, status, exc, calls>>

\* Lines 76-86: the first render.  A RuntimeError enters the handler; anything else
\* thrown is not caught and leaves main().
RenderFirst ==
    /\ pc = "v_render1"
    /\ \E o \in OperatorOutcomes :
         /\ calls' = Append(calls, Invocation("render", VideosDir, o))
         /\ trace' = Append(trace, "render")
         /\ IF o = NoExc
              THEN /\ out' = Append(out, "success")
                   /\ pc' = "done"
                   /\ status' = "returned"
                   /\ exc' = NoExc
              ELSE IF IsInstance(o, "RuntimeError")
                THEN /\ pc' = "v_except"
                     /\ exc' = o
                     /\ UNCHANGED <<out, status>>
                ELSE /\ pc' = "done"
                     /\ status' = "raised"
                     /\ exc' = o
                     /\ UNCHANGED out
    /\ UNCHANGED <<procVars, dirs, sceneVars, locals>>

\* Faulty variant: the retry runs without the engine switch.
HandleRenderError_NoSwitch ==
    /\ pc = "v_except"
    /\ IF Contains(exc.msg, Denoiser)
         THEN /\ out' = out \o <<"denoise_warning", "eevee_start">>
              /\ pc' = "v_render2"
              /\ UNCHANGED <<status, exc>>
         ELSE /\ out' = Append(out, "render_failed")
              /\ pc' = "done"
              /\ status' = "raised"
              /\ UNCHANGED exc
    /\ UNCHANGED <<procVars, dirs, sceneVars, locals, trace, calls>>

\* Faulty variant: every RuntimeError takes the fallback, whatever its message.
HandleRenderError_RetryAny ==
    /\ pc = "v_except"
    /\ out' = out \o <<"denoise_warning", "eevee_start">>
    /\ render' = [render EXCEPT !.engine = "BLENDER_EEVEE"]
    /\ eevee' = IF eevee.present THEN [eevee EXCEPT !.taa_render_samples = 64] ELSE eevee
    /\ pc' = "v_render2"
    /\ UNCHANGED <<procVars, dirs, cycles, view_layers, frame_end, objects, world,
                   fcurves, locals, status, exc, trace, calls>>

\* Lines 87-93 and 101-103: the handler of the first render's RuntimeError.
HandleRenderError ==
    /\ pc = "v_except"
    /\ IF Contains(exc.msg, Denoiser)
         THEN /\ out' = out \o <<"denoise_warning", "eevee_start">>
              /\ render' = [render EXCEPT !.engine = "BLENDER_EEVEE"]
              /\ eevee' = IF eevee.present THEN [eevee EXCEPT !.taa_render_samples = 64] ELSE eevee
              /\ pc' = "v_render2"
              /\ UNCHANGED <<status, exc>>
         ELSE /\ out' = Append(out, "render_failed")
              /\ pc' = "done"
              /\ status' = "raised"
              /\ UNCHANGED <<render, eevee, exc>>
    /\ UNCHANGED <<procVars, dirs, cycles, view_layers, frame_end, objects, world,
                   fcurves, locals, trace, calls>>

\* Faulty variant: the retry's handler raises again after reporting.
RenderRetry_Reraise ==
    /\ pc = "v_render2"
    /\ \E o \in OperatorOutcomes :
         /\ calls' = Append(calls, Invocation("render", VideosDir, o))
         /\ trace' = Append(trace, "render")
         /\ pc' = "done"
         /\ IF o = NoExc
              THEN /\ out' = Append(out, "success_eevee")
                   /\ status' = "returned"
                   /\ exc' = NoExc
              ELSE /\ out' = IF IsInstance(o, "Exception") THEN Append(out, "retry_failed") ELSE out
                   /\ status' = "raised"
                   /\ exc' = o
    /\ UNCHANGED <<procVars, dirs, sceneVars, locals>>

\* Lines 94-100: the retried render.  Every Exception is caught and reported,
\* the handler does not raise again.
RenderRetry ==
    /\ pc = "v_render2"
    /\ \E o \in OperatorOutcomes :
         /\ calls' = Append(calls, Invocation("render", VideosDir, o))
         /\ trace' = Append(trace, "render")
         /\ pc' = "done"
         /\ IF o = NoExc
              THEN /\ out' = Append(out, "success_eevee")
                   /\ status' = "returned"
                   /\ exc' = NoExc
              ELSE IF IsInstance(o, "Exception")
                THEN /\ out' = Append(out, "retry_failed")
                     /\ status' = "returned"
                     /\ exc' = NoExc
                ELSE /\ status' = "raised"
                     /\ exc' = o
                     /\ UNCHANGED out
    /\ UNCHANGED <<procVars, dirs, sceneVars, locals>>

VideoNext == SetAlphaSettings \/ SetEngineCycles \/ ConfigureCycles \/ SetOutputPath
             \/ RenderFirst \/ HandleRenderError \/ RenderRetry

----------------------------------------------------------------------------
(* blender_export_existing_scene.py *)

\* The exported file public/models/jaleneduseiwhite.glb, as a token.
SceneGlb == <<"w", ".", "g", "l", "b">>

InitScene ==
    /\ script = "scene"
    /\ argv = BaseArgv
    /\ appVersion = <<4, 2, 0>>
    /\ files \in {{}, {SceneGlb}}
    /\ svgCurves = 0
    /\ dirs \in DirStates
    /\ prefs = DefaultPrefs
    /\ render \in {r \in RenderStates : r.file_format = "PNG"}
    /\ cycles = DefaultCycles
    /\ eevee = DefaultEevee
    /\ view_layers = DefaultLayers
    /\ frame_end \in {1, 250}
    /\ objects \in ObjectStates
    /\ world = DefaultWorld
    /\ fcurves = NoCurves
    /\ locals = NoLocals
    /\ pc = "s_makedirs"
    /\ status = "running"
    /\ exc = NoExc
    /\ trace = <<>>
    /\ calls = <<>>
    /\ out = <<>>

\* The names of the objects of one type, in scene order (the list comprehensions of lines 49 and 55).
RECURSIVE OfType(_, _)
OfType(objs, type) ==
    IF objs = <<>> THEN <<>>
    ELSE (IF Head(objs).type = type THEN <<Head(objs).name>> ELSE <<>>) \o OfType(Tail(objs), type)

\* Lines 33-38.
SceneMakedirs ==
    /\ pc = "s_makedirs"
    /\ dirs' = Makedirs(dirs, ModelsDir)
    /\ trace' = Append(trace, "makedirs")
    /\ pc' = "s_info"
    /\ UNCHANGED <<procVars, sceneVars, locals, status, exc, calls, out>>

\* Faulty variant: listing the cameras also makes the frame range start over.
SceneInfo_Writes ==
    /\ pc = "s_info"
    /\ locals' = [locals EXCEPT !.cameras = OfType(objects, "CAMERA"),
                                !.lights = OfType(objects, "LIGHT")]
    /\ frame_end' = 1
    /\ out' = out \o <<"scene_info", "cameras", "lights">>
    /\ pc' = "s_export"
    /\ UNCHANGED <<procVars, dirs, render, cycles, eevee, view_layers, objects, world, fcurves,
                   status, exc, trace, calls>>

\* Lines 41-58: read the scene, list cameras and lights.
SceneInfo ==
    /\ pc = "s_info"
    /\ locals' = [locals EXCEPT !.cameras = OfType(objects, "CAMERA"),
                                !.lights = OfType(objects, "LIGHT")]
    /\ out' = out \o <<"scene_info", "cameras", "lights">>
    /\ pc' = "s_export"
    /\ UNCHANGED <<procVars, dirs, sceneVars, status, exc, trace, calls>>

\* Lines 61-68: the export operator; nothing catches what it throws.
SceneExport ==
    /\ pc = "s_export"
    /\ \E o \in OperatorOutcomes :
         /\ calls' = Append(calls, Invocation("export", ModelsDir, o))
         /\ trace' = Append(trace, "export")
         /\ out' = Append(out, "export_start")
         /\ IF o = NoExc
              THEN /\ files' = files \cup {SceneGlb}
                   /\ pc' = "s_report"
                   /\ UNCHANGED <<status, exc>>
              ELSE /\ pc' = "done"
                   /\ status' = "raised"
                   /\ exc' = o
                   /\ UNCHANGED files
    /\ UNCHANGED <<script, argv, appVersion, svgCurves, prefs, dirs, sceneVars, locals>>

\* Lines 70-71: the success message and the size of the written file.
SceneReport ==
    /\ pc = "s_report"
    /\ IF SceneGlb \in files
         THEN /\ out' = out \o <<"export_success", "file_size">>
              /\ status' = "returned"
              /\ exc' = NoExc
         ELSE /\ out' = Append(out, "export_success")
              /\ status' = "raised"
              /\ exc' = [type |-> "FileNotFoundError", msg |-> <<"No", "such", "file">>]
    /\ pc' = "done"
    /\ UNCHANGED <<procVars, dirs, sceneVars, locals, trace, calls>>

SceneNext == SceneMakedirs \/ SceneInfo \/ SceneExport \/ SceneReport

----------------------------------------------------------------------------
(* blender_jalen_edusei_glass.py *)

\* The "--" separator and the tokens that may follow it.
Sep == <<"-", "-">>
SvgSuffix == <<".", "s", "v", "g">>
SvgA == <<"a", ".", "s", "v", "g">>
SvgB == <<"b", ".", "s", "v", "g">>
PngA == <<"a", ".", "p", "n", "g">>
BareSvg == <<"s", "v", "g">>

\* The exported file public/models/jalen_edusei_glass.glb, as a token.
LogoGlb == <<"g", ".", "g", "l", "b">>

LogoArgvs ==
    { BaseArgv,
      Append(BaseArgv, Sep),
      BaseArgv \o <<Sep, SvgA>>,
      BaseArgv \o <<Sep, SvgB>>,
      BaseArgv \o <<Sep, PngA>>,
      BaseArgv \o <<Sep, BareSvg>>,
      BaseArgv \o <<SvgA>> }

Versions == { <<3, 6, 0>>, <<4, 0, 0>>, <<4, 2, 0>> }

\* Python's tuple comparison  a >= b  on version triples.
VersionGE(a, b) ==
    \/ a[1] > b[1]
    \/ a[1] = b[1] /\ a[2] > b[2]
    \/ a[1] = b[1] /\ a[2] = b[2] /\ a[3] >= b[3]

\* argv.index(x): the first position of x.
Index(seq, x) == CHOOSE i \in 1..Len(seq) : seq[i] = x /\ \A j \in 1..(i - 1) : seq[j] # x

\* str.endswith
EndsWith(tok, suffix) ==
    /\ Len(tok) >= Len(suffix)
    /\ SubSeq(tok, Len(tok) - Len(suffix) + 1, Len(tok)) = suffix

\* Line 164:  argv[argv.index("--") + 1:] if "--" in argv else []
ScriptArgs(av) ==
    IF \E i \in 1..Len(av) : av[i] = Sep
      THEN SubSeq(av, Index(av, Sep) + 1, Len(av))
      ELSE <<>>

\* Faulty variant: the file's existence is not looked at.
UseSvg_NoIsfile(args, fs) == Len(args) > 0 /\ EndsWith(args[1], SvgSuffix)

\* Line 165.
UseSvg(args, fs) == Len(args) > 0 /\ EndsWith(args[1], SvgSuffix) /\ args[1] \in fs

\* The frame_end argument of add_rotation_animation at line 176.
FrameEnd == 120

\* 6.283185307 rad, in microradians.
FullTurn == 6283185

InitLogo ==
    /\ script = "logo"
    /\ argv \in LogoArgvs
    /\ appVersion \in Versions
    /\ files \in SUBSET {SvgA, PngA}
    /\ svgCurves \in 0..MaxCurves
    /\ dirs \in {{}, {PublicDir, ModelsDir}}
    /\ prefs \in [world : {NoWorld, DefaultWorld}, interpolation : Interpolations]
    /\ render = DefaultRender
    /\ cycles = DefaultCycles
    /\ eevee = DefaultEevee
    /\ view_layers = DefaultLayers
    /\ frame_end = 250
    /\ objects \in {<<>>, <<Object("Cube", "MESH", "")>>}
    /\ world = DefaultWorld
    /\ fcurves = NoCurves
    /\ locals = NoLocals
    /\ pc = "l_reset"
    /\ status = "running"
    /\ exc = NoExc
    /\ trace = <<>>
    /\ calls = <<>>
    /\ out = <<>>

\* Line 23: bpy.ops.wm.read_factory_settings(use_empty=True).
ResetFactory ==
    /\ pc = "l_reset"
    /\ objects' = <<>>
    /\ world' = prefs.world
    /\ render' = DefaultRender
    /\ cycles' = DefaultCycles
    /\ eevee' = DefaultEevee
    /\ view_layers' = DefaultLayers
    /\ frame_end' = 250
    /\ fcurves' = NoCurves
    /\ trace' = Append(trace, "read_factory_settings")
    /\ pc' = "l_args"
    /\ UNCHANGED <<procVars, dirs, locals, status, exc, calls, out>>

\* Lines 163-170: the script arguments and the choice between SVG import and text.
ParseArgs ==
    /\ pc = "l_args"
    /\ LET args == ScriptArgs(argv)
           svg == UseSvg(args, files)
       IN /\ locals' = [locals EXCEPT !.args = args, !.use_svg = svg]
          /\ pc' = IF svg THEN "l_import" ELSE "l_text"
    /\ UNCHANGED <<procVars, dirs, sceneVars, status, exc, trace, calls, out>>

\* Lines 52-55: import the SVG; no CURVE object among the selected ones is an error.
ImportSvg ==
    /\ pc = "l_import"
    /\ objects' = objects \o [i \in 1..svgCurves |->
                                [Object("Curve", "CURVE", "") EXCEPT !.select = TRUE]]
    /\ trace' = Append(trace, "import_svg")
    /\ IF svgCurves = 0
         THEN /\ pc' = "done"
              /\ status' = "raised"
              /\ exc' = [type |-> "FileNotFoundError", msg |-> <<"No", "curves", "in", "SVG">>]
         ELSE /\ pc' = "l_join"
              /\ UNCHANGED <<status, exc>>
    /\ UNCHANGED <<procVars, dirs, render, cycles, eevee, view_layers, frame_end, world,
                   fcurves, locals, calls, out>>

\* Lines 56-64: join the curves into the first one and bevel its splines.
JoinCurves ==
    /\ pc = "l_join"
    /\ objects' = << [Object("Curve", "CURVE", "") EXCEPT !.select = TRUE, !.bevel_depth = 8] >>
    /\ locals' = [locals EXCEPT !.logo = 1]
    /\ trace' = Append(trace, "join")
    /\ pc' = "l_convert_svg"
    /\ UNCHANGED <<procVars, dirs, render, cycles, eevee, view_layers, frame_end, world,
                   fcurves, status, exc, calls, out>>

\* Lines 65-66.
ConvertSvg ==
    /\ pc = "l_convert_svg"
    /\ objects' = [objects EXCEPT ![locals.logo].type = "MESH"]
    /\ trace' = Append(trace, "convert")
    /\ pc' = "l_origin"
    /\ UNCHANGED <<procVars, dirs, render, cycles, eevee, view_layers, frame_end, world,
                   fcurves, locals, status, exc, calls, out>>

\* Lines 33-46: the text object.
TextAdd ==
    /\ pc = "l_text"
    /\ objects' = Append(objects, [Object("JalenEdusei_Text", "FONT", "")
                                      EXCEPT !.select = TRUE, !.bevel_depth = 2])
    /\ locals' = [locals EXCEPT !.logo = Len(objects) + 1]
    /\ trace' = Append(trace, "text_add")
    /\ pc' = "l_convert_text"
    /\ UNCHANGED <<procVars, dirs, render, cycles, eevee, view_layers, frame_end, world,
                   fcurves, status, exc, calls, out>>

\* Lines 47-48.
ConvertText ==
    /\ pc = "l_convert_text"
    /\ objects' = [objects EXCEPT ![locals.logo].type = "MESH"]
    /\ trace' = Append(trace, "convert")
    /\ pc' = "l_origin"
    /\ UNCHANGED <<procVars, dirs, render, cycles, eevee, view_layers, frame_end, world,
                   fcurves, locals, status, exc, calls, out>>

\* Lines 173-174.
OriginSet ==
    /\ pc = "l_origin"
    /\ objects' = [objects EXCEPT ![locals.logo].location = <<0, 0, 0>>]
    /\ trace' = Append(trace, "origin_set")
    /\ pc' = "l_camera"
    /\ UNCHANGED <<procVars, dirs, render, cycles, eevee, view_layers, frame_end, world,
                   fcurves, locals, status, exc, calls, out>>

\* Lines 71-73.
CameraAdd ==
    /\ pc = "l_camera"
    /\ objects' = Append(objects, [Object("Camera", "CAMERA", "PERSP") EXCEPT !.location = <<0, 0, 6>>])
    /\ trace' = Append(trace, "camera_add")
    /\ pc' = "l_lights"
    /\ UNCHANGED <<procVars, dirs, render, cycles, eevee, view_layers, frame_end, world,
                   fcurves, locals, status, exc, calls, out>>

\* Lines 76-84: the two area lights (locations in tenths).
LightsAdd ==
    /\ pc = "l_lights"
    /\ objects' = objects \o
         << [Object("Area", "LIGHT", "AREA") EXCEPT !.location = <<30, 20, 40>>],
            [Object("Area.001", "LIGHT", "AREA") EXCEPT !.location = <<-25, -15, 30>>] >>
    /\ trace' = trace \o <<"light_add", "light_add">>
    /\ pc' = "l_material"
    /\ UNCHANGED <<procVars, dirs, render, cycles, eevee, view_layers, frame_end, world,
                   fcurves, locals, status, exc, calls, out>>

\* Lines 87-114: the node graph of the glass material.
GlassMaterial(version) ==
    [ name |-> "Glass_JalenEdusei",
      nodes |-> {"ShaderNodeOutputMaterial", "ShaderNodeBsdfPrincipled", "ShaderNodeLayerWeight",
                 "ShaderNodeMixShader", "ShaderNodeBsdfGlossy"},
      trans_key |-> IF VersionGE(version, <<4, 0, 0>>) THEN "Transmission Weight" ELSE "Transmission",
      links |-> { <<"bsdf.BSDF", "mix.1">>, <<"glossy.BSDF", "mix.2">>,
                  <<"layer.Facing", "mix.fac">>, <<"mix.Shader", "out.Surface">> } ]

\* Lines 87-115.
MaterialNodes ==
    /\ pc = "l_material"
    /\ objects' = [objects EXCEPT ![locals.logo].materials = Append(@, GlassMaterial(appVersion))]
    /\ trace' = Append(trace, "material_nodes")
    /\ pc' = "l_uv"
    /\ UNCHANGED <<procVars, dirs, render, cycles, eevee, view_layers, frame_end, world,
                   fcurves, locals, status, exc, calls, out>>

\* Lines 119-128: select the logo alone and UV-unwrap it.
SmartProject ==
    /\ pc = "l_uv"
    /\ objects' = [i \in DOMAIN objects |->
                     IF i = locals.logo
                       THEN [objects[i] EXCEPT !.select = TRUE,
                               !.uv = IF VersionGE(appVersion, <<4, 0, 0>>)
                                        THEN "angle_limit" ELSE "angle"]
                       ELSE [objects[i] EXCEPT !.select = FALSE]]
    /\ trace' = Append(trace, "smart_project")
    /\ pc' = "l_world"
    /\ UNCHANGED <<procVars, dirs, render, cycles, eevee, view_layers, frame_end, world,
                   fcurves, locals, status, exc, calls, out>>

\* Lines 131-143: the world node graph (strength in tenths).
WorldNodes ==
    /\ pc = "l_world"
    /\ world' = [ present |-> TRUE, use_nodes |-> TRUE,
                  nodes |-> {"ShaderNodeOutputWorld", "ShaderNodeBackground"},
                  links |-> { <<"bg.Background", "out_w.Surface">> },
                  color |-> <<5, 5, 8, 100>>, strength |-> 3 ]
    /\ trace' = Append(trace, "world_nodes")
    /\ pc' = "l_empty"
    /\ UNCHANGED <<procVars, dirs, render, cycles, eevee, view_layers, frame_end, objects,
                   fcurves, locals, status, exc, calls, out>>

\* Lines 147-151: the empty, the parenting, the frame range.
AddEmpty ==
    /\ pc = "l_empty"
    /\ objects' = Append([objects EXCEPT ![locals.logo].parent = "LogoAxis"],
                         Object("LogoAxis", "EMPTY", "PLAIN_AXES"))
    /\ locals' = [locals EXCEPT !.empty = Len(objects) + 1]
    /\ frame_end' = FrameEnd
    /\ trace' = trace \o <<"empty_add", "parent">>
    /\ pc' = "l_key1"
    /\ UNCHANGED <<procVars, dirs, render, cycles, eevee, view_layers, world,
                   fcurves, status, exc, calls, out>>

\* keyframe_insert(data_path="rotation_euler", frame=f): one point per component,
\* replacing a point already at that frame, with the host's default interpolation.
KeyframeInsert(fc, frame, value, interp) ==
    [ i \in 0..2 |->
        {k \in fc[i] : k.frame # frame} \cup
        { [frame |-> frame, value |-> value[i + 1], interpolation |-> interp,
           handle_left_type |-> "AUTO_CLAMPED", handle_right_type |-> "AUTO_CLAMPED"] } ]

\* Line 152.
StartRotation == <<0, 0, 0>>

\* Line 154.
EndRotation == <<0, FullTurn, 0>>

\* Lines 152-153.
KeyframeStart ==
    /\ pc = "l_key1"
    /\ objects' = [objects EXCEPT ![locals.empty].rotation_euler = StartRotation]
    /\ fcurves' = KeyframeInsert(fcurves, 1, StartRotation, prefs.interpolation)
    /\ trace' = Append(trace, "keyframe_insert")
    /\ pc' = "l_key2"
    /\ UNCHANGED <<procVars, dirs, render, cycles, eevee, view_layers, frame_end, world,
                   locals, status, exc, calls, out>>

\* Faulty variant: the end rotation is set but its keyframe is never inserted.
KeyframeEnd_Skip ==
    /\ pc = "l_key2"
    /\ objects' = [objects EXCEPT ![locals.empty].rotation_euler = EndRotation]
    /\ pc' = "l_interp"
    /\ UNCHANGED <<procVars, dirs, render, cycles, eevee, view_layers, frame_end, world,
                   fcurves, locals, status, exc, trace, calls, out>>

\* Lines 154-155.
KeyframeEnd ==
    /\ pc = "l_key2"
    /\ objects' = [objects EXCEPT ![locals.empty].rotation_euler = EndRotation]
    /\ fcurves' = KeyframeInsert(fcurves, FrameEnd, EndRotation, prefs.interpolation)
    /\ trace' = Append(trace, "keyframe_insert")
    /\ pc' = "l_interp"
    /\ UNCHANGED <<procVars, dirs, render, cycles, eevee, view_layers, frame_end, world,
                   locals, status, exc, calls, out>>

\* Lines 158-160, for one keyframe point.
SmoothPoint(k) ==
    [k EXCEPT !.interpolation = "BEZIER", !.handle_left_type = "FREE", !.handle_right_type = "FREE"]

\* Lines 156-160.
SmoothHandles ==
    /\ pc = "l_interp"
    /\ fcurves' = [i \in DOMAIN fcurves |-> {SmoothPoint(k) : k \in fcurves[i]}]
    /\ trace' = Append(trace, "interpolation")
    /\ pc' = "l_render"
    /\ UNCHANGED <<procVars, dirs, render, cycles, eevee, view_layers, frame_end, objects, world,
                   locals, status, exc, calls, out>>

\* Lines 179-183.
RenderSettings ==
    /\ pc = "l_render"
    /\ render' = [render EXCEPT !.engine = "CYCLES", !.resolution_x = 1920, !.resolution_y = 1080]
    /\ cycles' = [cycles EXCEPT !.samples = 128]
    /\ pc' = "l_makedirs"
    /\ UNCHANGED <<procVars, dirs, eevee, view_layers, frame_end, objects, world,
                   fcurves, locals, status, exc, trace, calls, out>>

\* Lines 186-196.
LogoMakedirs ==
    /\ pc = "l_makedirs"
    /\ dirs' = Makedirs(dirs, ModelsDir)
    /\ trace' = Append(trace, "makedirs")
    /\ pc' = "l_export"
    /\ UNCHANGED <<procVars, sceneVars, locals, status, exc, calls, out>>

\* Lines 198-203: the export operator; nothing catches what it throws.
LogoExport ==
    /\ pc = "l_export"
    /\ \E o \in OperatorOutcomes :
         /\ calls' = Append(calls, Invocation("export", ModelsDir, o))
         /\ trace' = Append(trace, "export")
         /\ IF o = NoExc
              THEN /\ files' = files \cup {LogoGlb}
                   /\ pc' = "l_done"
                   /\ UNCHANGED <<status, exc>>
              ELSE /\ pc' = "done"
                   /\ status' = "raised"
                   /\ exc' = o
                   /\ UNCHANGED files
    /\ UNCHANGED <<script, argv, appVersion, svgCurves, prefs, dirs, sceneVars, locals, out>>

\* Lines 205-206.
LogoDone ==
    /\ pc = "l_done"
    /\ out' = out \o <<"done", "exported">>
    /\ status' = "returned"
    /\ pc' = "done"
    /\ UNCHANGED <<procVars, dirs, sceneVars, locals, exc, trace, calls>>

LogoNext == ResetFactory \/ ParseArgs \/ ImportSvg \/ JoinCurves \/ ConvertSvg \/ TextAdd
            \/ ConvertText \/ OriginSet \/ CameraAdd \/ LightsAdd \/ MaterialNodes
            \/ SmartProject \/ WorldNodes \/ AddEmpty \/ KeyframeStart \/ KeyframeEnd
            \/ SmoothHandles \/ RenderSettings \/ LogoMakedirs \/ LogoExport \/ LogoDone

----------------------------------------------------------------------------
Init == InitVideo \/ InitScene \/ InitLogo

Next == VideoNext \/ SceneNext \/ LogoNext

Spec == Init /\ [][Next]_vars

----------------------------------------------------------------------------
(* Vocabulary of the properties *)

InTrace(e) == \E i \in 1..Len(trace) : trace[i] = e

Printed(m) == \E i \in 1..Len(out) : out[i] = m

Count(e) == Cardinality({i \in 1..Len(trace) : trace[i] = e})

\* Every occurrence of step a precedes every occurrence of step b, and b never
\* happens in a run in which a has not happened.
Precedes(a, b) ==
    /\ \A i, j \in 1..Len(trace) : (trace[i] \in a /\ trace[j] \in b) => i < j
    /\ (\E j \in 1..Len(trace) : trace[j] \in b) => (\E i \in 1..Len(trace) : trace[i] \in a)

\* Consecutive steps of a pipeline are ordered.
InOrder(steps) == \A n \in 1..(Len(steps) - 1) : Precedes(steps[n], steps[n + 1])

Failed(c) == c.outcome # NoExc

DenoiserFailure(c) ==
    /\ IsInstance(c.outcome, "RuntimeError")
    /\ Contains(c.outcome.msg, Denoiser)

SomeRenderSucceeded == \E i \in 1..Len(calls) : calls[i].op = "render" /\ ~Failed(calls[i])

FramesOf(i) == {k.frame : k \in fcurves[i]}

ValueAt(i, f) == {k.value : k \in {q \in fcurves[i] : q.frame = f}}

----------------------------------------------------------------------------
(* blender_export_video.py: properties *)

\* C1: the render operator is invoked at most twice in a run; a second invocation
\* happens only after the first failed with a RuntimeError whose message contains
\* "OpenImageDenoiser", it runs with the engine switched from CYCLES to
\* BLENDER_EEVEE, and after it the run is over, whatever its outcome.
C1_RenderAtMostTwice ==
    script = "video" =>
        /\ Len(calls) <= 2
        /\ \A i \in 1..Len(calls) : calls[i].op = "render"
        /\ Len(calls) = 2 =>
              /\ DenoiserFailure(calls[1])
              /\ calls[1].engine = "CYCLES"
              /\ calls[2].engine = "BLENDER_EEVEE"
              /\ pc = "done"
        /\ pc = "v_render2" => (Len(calls) = 1 /\ DenoiserFailure(calls[1])
                                /\ render.engine = "BLENDER_EEVEE")

C1_Witness ==
    /\ script = "video"
    /\ Len(calls) = 2
    /\ Failed(calls[2])
    /\ pc = "done"

\* C2: when the first render fails with a message that does not contain
\* "OpenImageDenoiser", there is no retry, the engine stays CYCLES, and the
\* failure leaves main().
C2_OtherFailurePropagates ==
    (script = "video" /\ Len(calls) >= 1 /\ Failed(calls[1])
        /\ ~Contains(calls[1].outcome.msg, Denoiser)) =>
        /\ Len(calls) = 1
        /\ render.engine = "CYCLES"
        /\ pc \in {"v_except", "done"}
        /\ pc = "done" => (status = "raised" /\ exc = calls[1].outcome)
        /\ ~Printed("success") /\ ~Printed("success_eevee")

C2_Witness ==
    /\ script = "video"
    /\ Len(calls) = 1
    /\ calls[1].outcome.type = "RuntimeError"
    /\ ~Contains(calls[1].outcome.msg, Denoiser)
    /\ status = "raised"
    /\ Printed("render_failed")

\* C3 as stated: main() never returns normally after a run in which no render
\* invocation succeeded.
C3_Original ==
    (script = "video" /\ status = "returned") => SomeRenderSucceeded

\* C3 as amended: a failure of the retried render that is an Exception is caught,
\* reported and not raised again, so main() returns normally although no render
\* succeeded; main() returns normally without a successful render in that case
\* only.  Every other render failure (a first-attempt failure that is not the
\* denoiser RuntimeError, a retry failure that is not an Exception) leaves main().
C3_RetryFailureSwallowed ==
    (script = "video" /\ pc = "done") =>
        LET last == calls[Len(calls)]
            swallowed == Len(calls) = 2 /\ Failed(last) /\ IsInstance(last.outcome, "Exception")
        IN /\ Len(calls) >= 1
           /\ (status = "returned" /\ ~SomeRenderSucceeded) <=> swallowed
           /\ swallowed => (Printed("retry_failed") /\ exc = NoExc)
           /\ (Failed(last) /\ ~swallowed) => (status = "raised" /\ exc = last.outcome)

C3_Witness ==
    /\ script = "video"
    /\ status = "returned"
    /\ Len(calls) = 2
    /\ Failed(calls[2])
    /\ Printed("retry_failed")

\* C6: at every invocation of the render operator, the first and the retry alike,
\* film_transparent is True, the file format is PNG and the color mode is RGBA.
C6_AlphaAtEveryRender ==
    script = "video" =>
        \A i \in 1..Len(calls) :
            calls[i].op = "render" =>
                /\ calls[i].film_transparent
                /\ calls[i].file_format = "PNG"
                /\ calls[i].color_mode = "RGBA"

C6_Witness ==
    /\ script = "video"
    /\ Len(calls) = 2
    /\ calls[2].engine = "BLENDER_EEVEE"
    /\ calls[2].color_mode = "RGBA"

\* C9: the first render runs with engine CYCLES and, when the scene has Cycles
\* settings, with denoising off on the scene and on every view layer; from the
\* engine assignment on the engine is BLENDER_EEVEE only after a first-attempt
\* failure whose message contains "OpenImageDenoiser"; a success message is
\* printed only in a run in which some render returned normally.
C9_FirstRenderCycles ==
    script = "video" =>
        /\ Len(calls) >= 1 =>
              /\ calls[1].engine = "CYCLES"
              /\ calls[1].cycles.present =>
                    /\ ~calls[1].cycles.use_denoising
                    /\ \A n \in DOMAIN calls[1].view_layers :
                          /\ ~calls[1].view_layers[n].cyclesDenoising
                          /\ ~calls[1].view_layers[n].useDenoising
        /\ (pc \notin {"v_settings", "v_engine"} /\ render.engine # "CYCLES") =>
              /\ render.engine = "BLENDER_EEVEE"
              /\ Len(calls) >= 1
              /\ DenoiserFailure(calls[1])
        /\ (Printed("success") \/ Printed("success_eevee")) => SomeRenderSucceeded

C9_Witness ==
    /\ script = "video"
    /\ render.engine = "BLENDER_EEVEE"
    /\ Len(calls) = 2
    /\ calls[1].cycles.present
    /\ \E n \in DOMAIN calls[1].view_layers : calls[1].view_layers[n].hasUseDenoising
    /\ Printed("success_eevee")

----------------------------------------------------------------------------
(* blender_export_existing_scene.py: properties *)

\* C7: main() never writes a field of the scene, invokes the export operator
\* exactly once, prints the success message and the file size only after the
\* operator returned normally; a failure of the operator is not caught: it leaves
\* main() and neither message is printed.
C7_SceneExportReadOnly ==
    /\ [][script = "scene" => UNCHANGED sceneVars]_vars
    /\ [](script = "scene" =>
            /\ Len(calls) <= 1
            /\ pc = "done" => Len(calls) = 1
            /\ (Printed("export_success") \/ Printed("file_size")) =>
                  (Len(calls) = 1 /\ ~Failed(calls[1]))
            /\ (Len(calls) = 1 /\ Failed(calls[1])) =>
                  (pc = "done" /\ status = "raised" /\ exc = calls[1].outcome)
            /\ status = "returned" => (Printed("export_success") /\ Printed("file_size")))

C7_Witness ==
    /\ script = "scene"
    /\ Len(calls) = 1
    /\ Failed(calls[1])
    /\ status = "raised"
    /\ Len(objects) > 0

----------------------------------------------------------------------------
(* blender_jalen_edusei_glass.py: properties *)

\* A positional argument follows the separator and names no existing file.
MissingFileGiven == Len(ScriptArgs(argv)) > 0 /\ ScriptArgs(argv)[1] \notin files

GeometryBuilt == \E i \in DOMAIN objects : objects[i].type \in {"FONT", "CURVE", "MESH"}

\* C4 as stated: when the file given after "--" does not exist, the run is
\* aborted with an error: no logo geometry is built and the export operator is
\* never invoked.
C4_Original ==
    (script = "logo" /\ pc \notin {"l_reset", "l_args"} /\ MissingFileGiven) =>
        /\ ~GeometryBuilt
        /\ ~InTrace("export")
        /\ pc = "done" => status = "raised"

\* C4 as amended: a path after "--" that names no existing file is not treated as
\* an SVG path: nothing is imported, no error is raised for it, the text logo is
\* built instead and the run goes on to the export operator.  The script itself
\* raises FileNotFoundError only when an existing .svg file imports no curve; that
\* run builds no geometry and never invokes the export operator.
C4_MissingFileFallsBackToText ==
    (script = "logo" /\ pc \notin {"l_reset", "l_args"}) =>
        /\ MissingFileGiven =>
              /\ ~locals.use_svg
              /\ ~InTrace("import_svg")
              /\ exc.type # "FileNotFoundError"
              /\ pc # "l_text" => (InTrace("text_add") /\ GeometryBuilt)
              /\ pc = "done" => InTrace("export")
        /\ exc.type = "FileNotFoundError" =>
              /\ locals.use_svg
              /\ locals.args[1] \in files
              /\ svgCurves = 0
              /\ status = "raised"
              /\ ~GeometryBuilt
              /\ ~InTrace("export")

C4_Witness ==
    /\ script = "logo"
    /\ MissingFileGiven
    /\ EndsWith(ScriptArgs(argv)[1], SvgSuffix)
    /\ InTrace("text_add")
    /\ status = "returned"

Geometry == {"import_svg", "text_add"}

\* C5 as stated: the world node graph is built before the UV-unwrap.
C5_Original ==
    script = "logo" =>
        InOrder(<< Geometry, {"convert"}, {"camera_add"}, {"light_add"}, {"material_nodes"},
                   {"world_nodes"}, {"smart_project"}, {"parent"}, {"keyframe_insert"},
                   {"export"} >>)

\* C5 as amended: in every run the steps occur in the order build or import
\* geometry, convert to mesh, camera, lights, material nodes, UV-unwrap, world
\* nodes, parent to the empty, rotation keyframes, export: the world node graph is
\* built after the UV-unwrap, and the export operator is invoked only after both
\* rotation keyframes exist.
C5_PipelineOrder ==
    script = "logo" =>
        /\ InOrder(<< Geometry, {"convert"}, {"camera_add"}, {"light_add"}, {"material_nodes"},
                      {"smart_project"}, {"world_nodes"}, {"parent"}, {"keyframe_insert"},
                      {"export"} >>)
        /\ InTrace("export") =>
              /\ Count("keyframe_insert") = 2
              /\ \A i \in DOMAIN fcurves : FramesOf(i) = {1, FrameEnd}

C5_Witness ==
    /\ script = "logo"
    /\ status = "returned"
    /\ InTrace("import_svg")
    /\ InTrace("world_nodes")
    /\ InTrace("export")

\* C8: add_rotation_animation parents the logo to the empty and keyframes the
\* empty's rotation about Z from 0 at frame 1 to a full turn at frame_end, with
\* the X and Y components 0 in both keyframes, every point BEZIER.
C8_RotationAboutZ ==
    (script = "logo" /\ InTrace("interpolation")) =>
        /\ objects[locals.logo].parent = objects[locals.empty].name
        /\ \A i \in 0..2 : FramesOf(i) = {1, FrameEnd}
        /\ ValueAt(2, 1) = {0}
        /\ ValueAt(2, FrameEnd) = {FullTurn}
        /\ \A i \in {0, 1} : ValueAt(i, 1) = {0} /\ ValueAt(i, FrameEnd) = {0}
        /\ \A i \in 0..2 : \A k \in fcurves[i] : k.interpolation = "BEZIER"

----------------------------------------------------------------------------
(* All three scripts: properties *)

AllDirsExisted == \A i \in 1..Len(calls) : calls[i].dirExists

\* C10 as stated: the output directory exists at every operator invocation, and
\* the directory creation happens on every run.
C10_Original ==
    /\ AllDirsExisted
    /\ Precedes({"makedirs"}, {"render", "export"})
    /\ pc = "done" => InTrace("makedirs")

\* C10 as amended: in all three scripts the output directory is ensured before
\* the render or export operator is invoked, so the directory exists at every
\* invocation, also in the runs in which the operator then fails; the directory
\* creation happens on every run except the logo-script run that
\* create_from_svg aborts with FileNotFoundError before the export is reached.
C10_DirEnsuredBeforeOperator ==
    /\ AllDirsExisted
    /\ Precedes({"makedirs"}, {"render", "export"})
    /\ Count("makedirs") <= 1
    /\ InTrace("makedirs") => {VideosDir, ModelsDir} \cap dirs # {}
    /\ (pc = "done" /\ ~InTrace("makedirs")) =>
          (script = "logo" /\ exc.type = "FileNotFoundError" /\ status = "raised" /\ calls = <<>>)

C10_Witness ==
    /\ script = "logo"
    /\ Len(calls) = 1
    /\ Failed(calls[1])
    /\ calls[1].dirExists
    /\ status = "raised"

====
